---- MODULE Spec2Model ----
(***************************************************************************)
(* Lorentz gas: the simulation engine Model (checkBorders, checkAtom,      *)
(* step, statistics) as driven by Widget and Window.                       *)
(*                                                                         *)
(* Number representation                                                   *)
(*   - coordinates, radii and impulseSum are qreal in the source; here     *)
(*     they are integers counting 1/PosScale of a pixel;                   *)
(*   - timeFull, timeInside and timeInsideAll are qreal; here they are     *)
(*     integers counting 1/TimeScale, with TimeScale a multiple of 1000    *)
(*     and of every particle count, so speed*elapsed/1000 and s/num are    *)
(*     exact;                                                              *)
(*   - directions are angles in whole degrees (setNumber draws whole       *)
(*     degrees); cos, sin and atan2 are evaluated on a table;              *)
(*   - a quotient stored in a series (timeFull/100.0, timeInside/timeFull, *)
(*     density) is the pair <<numerator, denominator>>; denominator 0 is   *)
(*     the result of a division by zero.                                   *)
(***************************************************************************)
EXTENDS Integers, Sequences, FiniteSets, TLC

(* ------------------------------ bounds --------------------------------- *)
\* resolution of a coordinate: 1/PosScale of a pixel
PosScale == 4
\* most particles the model holds (numberBox allows 500)
MaxNum == 2
\* most authoritative step calls of one run
MaxTicks == 3
\* most other calls (add, setters, clear, trace preview) of one run
MaxOps == 2
\* capacity of the series: Model::MAX_HISTORY is 100000 in the source; the
\* model keeps the name and scales the capacity down so that a full series
\* is reachable
MAX_HISTORY == 2

(* --------------------------- program constants ------------------------- *)
measurePeriod == 20
refresh_rate == 50
trace_length == 3000
WidgetW == 400
WidgetH == 400
SideBoxValue == 50
AtomRadBoxValue == 10
ElectronRadBoxValue == 4
SpeedBoxValue == 100
BinsBoxValue == 3
ModelSide == 25
NumTrials == 9


(* ------------------------------ arithmetic ----------------------------- *)
Abs(a) == IF a < 0 THEN -a ELSE a

\* a/b rounded to the nearest integer, b > 0 (exact when b divides a)
RDiv(a, b) == IF a >= 0 THEN (2 * a + b) \div (2 * b)
              ELSE -((2 * (-a) + b) \div (2 * b))

FloorDiv(a, b) == a \div b
CeilDiv(a, b) == -((-a) \div b)

RECURSIVE FloorSqrt(_)
FloorSqrt(n) == IF n < 2 THEN n
                ELSE LET r == 2 * FloorSqrt(n \div 4)
                     IN IF (r + 1) * (r + 1) <= n THEN r + 1 ELSE r

\* sqrt rounded to the nearest integer (exact on perfect squares)
Sqrt(n) == LET r == FloorSqrt(n) IN IF n - r * r > r THEN r + 1 ELSE r

sqr(x) == x * x

RECURSIVE Gcd(_, _)
Gcd(a, b) == IF b = 0 THEN a ELSE Gcd(b, a % b)

Lcm(a, b) == (a * b) \div Gcd(a, b)

RECURSIVE LcmUpTo(_)
LcmUpTo(n) == IF n <= 1 THEN 1 ELSE Lcm(n, LcmUpTo(n - 1))

\* resolution of a time accumulator: 1/TimeScale
TimeScale == 1000 * LcmUpTo(MaxNum)

\* the quotient n/d of two non-negative numbers, in lowest terms;
\* <<0, 0>> when d = 0
Quot(n, d) == IF d = 0 THEN <<0, 0>>
              ELSE LET g == Gcd(n, d) IN <<n \div g, d \div g>>

(* ------------------------------ trigonometry --------------------------- *)
TrigScale == 10000

SinTable == <<
    0,  175,  349,  523,  698,  872, 1045, 1219, 1392, 1564,
 1736, 1908, 2079, 2250, 2419, 2588, 2756, 2924, 3090, 3256,
 3420, 3584, 3746, 3907, 4067, 4226, 4384, 4540, 4695, 4848,
 5000, 5150, 5299, 5446, 5592, 5736, 5878, 6018, 6157, 6293,
 6428, 6561, 6691, 6820, 6947, 7071, 7193, 7314, 7431, 7547,
 7660, 7771, 7880, 7986, 8090, 8192, 8290, 8387, 8480, 8572,
 8660, 8746, 8829, 8910, 8988, 9063, 9135, 9205, 9272, 9336,
 9397, 9455, 9511, 9563, 9613, 9659, 9703, 9744, 9781, 9816,
 9848, 9877, 9903, 9925, 9945, 9962, 9976, 9986, 9994, 9998,
 10000 >>

\* sin of an angle in degrees, times TrigScale
Sin(deg) == LET a == deg % 360
            IN IF a <= 90 THEN SinTable[a + 1]
               ELSE IF a <= 180 THEN SinTable[180 - a + 1]
               ELSE IF a <= 270 THEN -SinTable[a - 180 + 1]
               ELSE -SinTable[360 - a + 1]

Cos(deg) == Sin(deg + 90)

\* atan2(y, x) in whole degrees, in -179..180; atan2(0, 0) = 0
Atan2(y, x) ==
  IF x = 0 /\ y = 0 THEN 0
  ELSE LET ax == Abs(x)
           ay == Abs(y)
           f(a) == ax * Cos(a) + ay * Sin(a)
           q == CHOOSE a \in 0..90 :
                  /\ (a = 0 \/ f(a) >= f(a - 1))
                  /\ (a = 90 \/ f(a) > f(a + 1))
       IN IF x >= 0 THEN (IF y >= 0 THEN q ELSE -q)
          ELSE (IF y >= 0 THEN 180 - q ELSE IF q = 0 THEN 180 ELSE q - 180)

(* ------------------------------- state --------------------------------- *)
VARIABLES
  width, height,            \* int: box
  xBegin, yBegin,           \* int: lattice phase offset
  side,                     \* int: lattice spacing
  atomR, electronR,         \* qreal, in 1/PosScale
  speed,                    \* qreal, pixels per 1000 elapsed
  num,                      \* int: particle count
  positions,                \* QVector<QPointF>: <<x, y>> in 1/PosScale, <<>> is NaN
  speedDir,                 \* QVector<qreal>: degrees
  positions_save, speedDir_save,
  paintTraceOnly,
  nbins, bin,
  binwidth,                 \* qreal: the pair <<width, nbins>> it was computed from
  timeFull, timeInside,     \* qreal, in 1/TimeScale
  impulseSum,               \* qreal, in 1/PosScale
  timeInsideAll,            \* QVector<qreal>, in 1/TimeScale
  density,                  \* QVector<qreal>: quotients
  time, prob, impulses,     \* the series
  outcome,                  \* what the particle loop of the last step did to each particle
  at_save,                  \* <<positions, speedDir>> when save() was last called
  other,                    \* the statistics of a second Model (see Replay), or <<>>
  bin_before,               \* bin when updateBinsNumber was last entered, -1 before
  drawn,                    \* the (x, y) the last traced trial loop drew from rand()
  timerActive,              \* Window: timer->isActive()
  wasRunning,               \* Window::wasRunning
  trailChecked,             \* Window: trailModeCheckBox is checked (trail mode)
  playEnabled,              \* Window: togglePlayButton is enabled
  entered_active,           \* timer->isActive() when trailMode(true) was last entered
  confined,                 \* every step(refresh_rate) of the timer since clear() had one
                            \* particle, which stayed in the monitored bin
  trace_i,                  \* Widget::paintEvent: loop counter i of the preview, 0 outside
  ticks, ops                \* calls made so far

geometry == <<width, height, xBegin, yBegin, side, atomR, electronR>>
particles == <<num, positions, speedDir>>
saved == <<positions_save, speedDir_save>>
bins == <<nbins, bin, binwidth>>
accumulators == <<timeFull, timeInside, impulseSum, timeInsideAll>>
series == <<time, prob, impulses>>
window == <<timerActive, wasRunning, trailChecked, playEnabled>>
vars == <<geometry, speed, particles, saved, paintTraceOnly, bins, accumulators,
          density, series, outcome, at_save, other, bin_before, drawn, window,
          entered_active, confined, trace_i, ticks, ops>>

NaNPoint == <<>>
IsNaN(p) == Len(p) = 0

Zeros(n) == [b \in 1..n |-> 0]
ZeroQuots(n) == [b \in 1..n |-> <<0, 1>>]

(* ----------------------------- Wall Reflector -------------------------- *)
\* variant: the particle is put on the wall it passed, not mirrored
checkBordersOnWall(p, phi, w, h, eR) ==
  IF IsNaN(p) THEN [p |-> p, phi |-> phi, addImpulse |-> 0]
  ELSE
  LET y == p[2] - eR
      x == p[1] - eR
      dy == y - h + 2 * eR
      dx == x - w + 2 * eR
      py1 == IF dy > 0 THEN h - eR ELSE p[2]
      phi1 == IF dy > 0 THEN 360 - phi ELSE phi
      imp1 == IF dy > 0 THEN dy ELSE 0
      px2 == IF dx > 0 THEN w - eR ELSE p[1]
      phi2 == IF dx > 0 THEN 540 - phi1 ELSE phi1
      imp2 == IF dx > 0 THEN imp1 + dx ELSE imp1
      py3 == IF y < 0 THEN eR ELSE py1
      phi3 == IF y < 0 THEN 360 - phi2 ELSE phi2
      imp3 == IF y < 0 THEN imp2 + (-y) ELSE imp2
      px4 == IF x < 0 THEN eR ELSE px2
      phi4 == IF x < 0 THEN 540 - phi3 ELSE phi3
      imp4 == IF x < 0 THEN imp3 + (-x) ELSE imp3
  IN [p |-> <<px4, py3>>, phi |-> phi4, addImpulse |-> imp4]

\* variant: the walls are tested at the diameter 2*electronR
checkBordersDiameter(p, phi, w, h, eR) ==
  IF IsNaN(p) THEN [p |-> p, phi |-> phi, addImpulse |-> 0]
  ELSE
  LET y == p[2] - 2 * eR
      x == p[1] - 2 * eR
      dy == y - h + 4 * eR
      dx == x - w + 4 * eR
      py1 == IF dy > 0 THEN h - eR - dy ELSE p[2]
      phi1 == IF dy > 0 THEN 360 - phi ELSE phi
      imp1 == IF dy > 0 THEN dy ELSE 0
      px2 == IF dx > 0 THEN w - eR - dx ELSE p[1]
      phi2 == IF dx > 0 THEN 540 - phi1 ELSE phi1
      imp2 == IF dx > 0 THEN imp1 + dx ELSE imp1
      py3 == IF y < 0 THEN eR - y ELSE py1
      phi3 == IF y < 0 THEN 360 - phi2 ELSE phi2
      imp3 == IF y < 0 THEN imp2 + (-y) ELSE imp2
      px4 == IF x < 0 THEN eR - x ELSE px2
      phi4 == IF x < 0 THEN 540 - phi3 ELSE phi3
      imp4 == IF x < 0 THEN imp3 + (-x) ELSE imp3
  IN [p |-> <<px4, py3>>, phi |-> phi4, addImpulse |-> imp4]

\* Model::checkBorders on the values (w, h, eR are width, height, electronR
\* in 1/PosScale): the corrected point, the direction and addImpulse
checkBorders(p, phi, w, h, eR) ==
  IF IsNaN(p) THEN [p |-> p, phi |-> phi, addImpulse |-> 0]
  ELSE
  LET y == p[2] - eR
      x == p[1] - eR
      dy == y - h + 2 * eR
      dx == x - w + 2 * eR
      \* the four tests in the order of the source
      py1 == IF dy > 0 THEN h - eR - dy ELSE p[2]
      phi1 == IF dy > 0 THEN 360 - phi ELSE phi
      imp1 == IF dy > 0 THEN dy ELSE 0
      px2 == IF dx > 0 THEN w - eR - dx ELSE p[1]
      phi2 == IF dx > 0 THEN 540 - phi1 ELSE phi1
      imp2 == IF dx > 0 THEN imp1 + dx ELSE imp1
      py3 == IF y < 0 THEN eR - y ELSE py1
      phi3 == IF y < 0 THEN 360 - phi2 ELSE phi2
      imp3 == IF y < 0 THEN imp2 + (-y) ELSE imp2
      px4 == IF x < 0 THEN eR - x ELSE px2
      phi4 == IF x < 0 THEN 540 - phi3 ELSE phi3
      imp4 == IF x < 0 THEN imp3 + (-x) ELSE imp3
  IN [p |-> <<px4, py3>>, phi |-> phi4, addImpulse |-> imp4]

(* ---------------------------- Lattice Geometry ------------------------- *)
\* ceil((x-xBegin)/side) * side + xBegin, with x, b (offset) and sd (side)
\* in 1/PosScale
LatticeCeil(x, b, sd) == CeilDiv(x - b, sd) * sd + b
LatticeFloor(x, b, sd) == FloorDiv(x - b, sd) * sd + b

\* the candidates (xC1,yC1) .. (xC4,yC4) in the order of the source
Candidates(x, y, xb, yb, sd) ==
  << <<LatticeCeil(x, xb, sd),  LatticeCeil(y, yb, sd)>>,
     <<LatticeCeil(x, xb, sd),  LatticeFloor(y, yb, sd)>>,
     <<LatticeFloor(x, xb, sd), LatticeFloor(y, yb, sd)>>,
     <<LatticeFloor(x, xb, sd), LatticeCeil(y, yb, sd)>> >>

\* qSqrt(sqr(x-xC) + sqr(y-yC)) <= R, decided on the squares (R >= 0)
Within(x, y, c, R) == sqr(x - c[1]) + sqr(y - c[2]) <= sqr(R)

(* ------------------------------ Atom Collider -------------------------- *)
\* no contact: the point and the direction as they were
NoContact(p, phi) ==
  [p |-> p, phi |-> phi, act |-> FALSE, tn |-> 0, A |-> 0,
   cross |-> NaNPoint, c |-> <<PosScale, PosScale>>]

\* x = x0 + t*dx, y = y0 + t*dy, then x += (1-t)*l*cos(phi), y += ... ;
\* t is the quotient tn/A and rest is (1-t)*l
Reapply(xt, yt, rest, phi, tn, A, c) ==
  [p |-> <<xt + RDiv(rest * Cos(phi), TrigScale),
           yt + RDiv(rest * Sin(phi), TrigScale)>>,
   phi |-> phi, act |-> TRUE, tn |-> tn, A |-> A, cross |-> <<xt, yt>>, c |-> c]

\* t = (2*((xC-x0)*dx + (yC-y0)*dy) - sqrt(D)) / (2*(sqr(dx) + sqr(dy))),
\* with the common factor 2 cancelled: tn is the numerator, A the denominator
Cross(x0, y0, dx, dy, A, tn, phi, c) ==
  IF A = 0
    THEN [p |-> NaNPoint, phi |-> phi, act |-> TRUE, tn |-> 0, A |-> 0,
          cross |-> NaNPoint, c |-> c]
    ELSE Reapply(x0 + RDiv(tn * dx, A), y0 + RDiv(tn * dy, A),
                 RDiv((A - tn) * Sqrt(A), A), phi, tn, A, c)

\* D = sqr(2*((x0-xC)*dx + (y0-yC)*dy))
\*       - 4*(sqr(dx)+sqr(dy))*(sqr(xC-x0)+sqr(yC-y0)-sqr(R)),
\* with the common factor 4 cancelled. With P = (xC-x0)*dx + (yC-y0)*dy and
\* X = (xC-x0)*dy - (yC-y0)*dx, sqr(P) + sqr(X) is
\* (sqr(dx)+sqr(dy))*(sqr(xC-x0)+sqr(yC-y0)) (Lagrange), so D is evaluated as
\* A*sqr(R) - sqr(X): the same integer, within the range of the checker's
\* integers where sqr(P) is not.
Discriminant(A, x0, y0, dx, dy, c, R) ==
  A * sqr(R) - sqr((c[1] - x0) * dy - (c[2] - y0) * dx)

Solve(x0, y0, dx, dy, A, P, phi, c, R) ==
  Cross(x0, y0, dx, dy, A,
        P - Sqrt(Discriminant(A, x0, y0, dx, dy, c, R)), phi, c)

Segment(x0, y0, dx, dy, phi, c, R) ==
  Solve(x0, y0, dx, dy, sqr(dx) + sqr(dy),
        (c[1] - x0) * dx + (c[2] - y0) * dy, phi, c, R)

\* beta = atan2(y-yC, x-xC) at the end point (x, y) of the step
Normal(x, y, c) == Atan2(y - c[2], x - c[1])

\* the part of Model::checkAtom under if (act): centre c, end point (x, y),
\* start pOld, R = atomR + electronR; phi = 2*beta - phi - M_PI
Reflect(x, y, phi, pOld, c, R) ==
  Segment(pOld[1], pOld[2], x - pOld[1], y - pOld[2],
          2 * Normal(x, y, c) - phi - 180, c, R)

\* the last of the four tests that matches sets (xC, yC)
Matched(p, cs, R) ==
  IF Within(p[1], p[2], cs[4], R) THEN 4
  ELSE IF Within(p[1], p[2], cs[3], R) THEN 3
  ELSE IF Within(p[1], p[2], cs[2], R) THEN 2
  ELSE IF Within(p[1], p[2], cs[1], R) THEN 1
  ELSE 0

ReflectAt(p, phi, pOld, cs, k, R) ==
  IF k = 0 THEN NoContact(p, phi) ELSE Reflect(p[1], p[2], phi, pOld, cs[k], R)

Contact(p, phi, pOld, cs, R) == ReflectAt(p, phi, pOld, cs, Matched(p, cs, R), R)

\* Model::checkAtom
checkAtom(p, phi, pOld, xb, yb, sd, R) ==
  IF IsNaN(p) THEN NoContact(p, phi)
  ELSE Contact(p, phi, pOld, Candidates(p[1], p[2], xb, yb, sd), R)

(* --------------------------------- Stepper ----------------------------- *)
\* x in [b*binwidth, (b+1)*binwidth), with binwidth the quotient bw[1]/bw[2]
InBin(x, b, bw) == /\ x * bw[2] >= b * bw[1] * PosScale
                   /\ x * bw[2] < (b + 1) * bw[1] * PosScale

\* both the pre-step and the post-step x lie in bin b
Resides(curP, newP, b, bw) ==
  /\ ~IsNaN(curP) /\ ~IsNaN(newP)
  /\ InBin(curP[1], b, bw) /\ InBin(newP[1], b, bw)

\* what one turn of the particle loop of Model::step leaves
Outcome(curP, wall, atom) ==
  [curP |-> curP, newP |-> atom.p, phi |-> atom.phi,
   addImpulse |-> wall.addImpulse, wallP |-> wall.p, wallPhi |-> wall.phi,
   act |-> atom.act,
   tn |-> atom.tn, A |-> atom.A, cross |-> atom.cross, c |-> atom.c]

\* the atom result with the point and direction a second wall test leaves
Retest(atom, again) == [atom EXCEPT !.p = again.p, !.phi = again.phi]

RetestOf(atom) ==
  Retest(atom, checkBorders(atom.p, atom.phi, width * PosScale,
                            height * PosScale, electronR))

\* variant: the point checkAtom leaves is tested against the walls again
AfterWallRetested(curP, wall) ==
  Outcome(curP, wall,
          RetestOf(checkAtom(wall.p, wall.phi, curP, xBegin * PosScale,
                             yBegin * PosScale, side * PosScale,
                             atomR + electronR)))

\* checkAtom(newP, speedDir[i], curP) after checkBorders(newP, speedDir[i])
AfterWall(curP, wall) ==
  Outcome(curP, wall,
          checkAtom(wall.p, wall.phi, curP, xBegin * PosScale,
                    yBegin * PosScale, side * PosScale, atomR + electronR))

\* newP = curP + dP
Moved(curP, dx, dy) ==
  IF IsNaN(curP) THEN curP ELSE <<curP[1] + dx, curP[2] + dy>>

\* the body of the particle loop of Model::step for particle i, up to
\* positions[i] = newP: s is the step length in 1/PosScale
Advance(i, s) ==
  AfterWall(positions[i],
            checkBorders(Moved(positions[i],
                               RDiv(Cos(speedDir[i]) * s, TrigScale),
                               RDiv(Sin(speedDir[i]) * s, TrigScale)),
                         speedDir[i], width * PosScale, height * PosScale,
                         electronR))

RECURSIVE SumOver(_, _)
SumOver(f, n) == IF n = 0 THEN 0 ELSE f[n] + SumOver(f, n - 1)

\* time.empty() || time.back() + measurePeriod <= timeFull; tf is the value
\* of timeFull after the step, time.back() the stored timeFull / 100.0
PeriodOver(tf) ==
  \/ time = <<>>
  \/ time[Len(time)][1] + measurePeriod * TimeScale * time[Len(time)][2]
       <= tf * time[Len(time)][2]

\* variant: the capacity test is dropped
DueUncapped(tf) == PeriodOver(tf)

\* the condition of the append: the period is over && time.size() < MAX_HISTORY
Due(tf) == PeriodOver(tf) /\ Len(time) < MAX_HISTORY

\* variant: the entry is left as timeInsideAll[b] / timeFull
NormalizeSkipped(d, psum) == d

\* density[b] /= psum
Normalize(d, psum) ==
  IF d[2] = 0 \/ psum[2] = 0 \/ psum[1] = 0 THEN <<0, 0>>
  ELSE Quot(d[1] * psum[2], d[2] * psum[1])

\* density[b] = timeInsideAll[b] / timeFull, psum += density[b], then the
\* division of every entry by psum
Renormalized(tia, tf) ==
  [b \in 1..nbins |-> Normalize(Quot(tia[b], tf), Quot(SumOver(tia, nbins), tf))]

\* the number of particles that reside in bin b over the step
Inside(b) ==
  Cardinality({i \in 1..num : Resides(positions[i], positions'[i], b, binwidth)})

\* the tail of Model::step: the sample, when one is due
Sample ==
  IF Due(timeFull')
    THEN /\ time' = Append(time, Quot(timeFull', 100))
         /\ prob' = Append(prob, Quot(timeInside', timeFull'))
         /\ impulses' = Append(impulses, impulseSum')
         /\ density' = Renormalized(timeInsideAll', timeFull')
    ELSE UNCHANGED <<series, density>>

\* variant: every particle is credited the whole step
ShareWhole(sT) == sT

\* s/num, with sT the step length s in 1/TimeScale (no particle: not used)
Share(sT) == IF num = 0 THEN 0 ELSE sT \div num

\* if (!paintTraceOnly) timeInside += s/num, per particle inside bin b
Residence(acc, b, sT) ==
  IF ~paintTraceOnly THEN acc + Inside(b) * Share(sT) ELSE acc

\* variant: timeFull += s inside the particle loop
ElapsedPerParticle(sT) ==
  IF ~paintTraceOnly THEN timeFull + num * sT ELSE timeFull

\* if (!paintTraceOnly) timeFull += s
Elapsed(sT) == IF ~paintTraceOnly THEN timeFull + sT ELSE timeFull

\* variant: impulseSum = addImpulse
WallImpulseAssigned(add) == IF ~paintTraceOnly THEN add ELSE impulseSum

\* variant: the impulse is added in trace mode as well
WallImpulseAlways(add) == impulseSum + add

\* the end of checkBorders, over the particle loop:
\* if (!paintTraceOnly) impulseSum += addImpulse
WallImpulse(add) == IF ~paintTraceOnly THEN impulseSum + add ELSE impulseSum

\* the statistics of the particle loop and of timeFull
Account(sT) ==
  /\ timeFull' = Elapsed(sT)
  /\ timeInside' = Residence(timeInside, bin, sT)
  /\ timeInsideAll' =
       [b \in 1..nbins |-> Residence(timeInsideAll[b], b - 1, sT)]
  /\ impulseSum' =
       WallImpulse(SumOver([i \in 1..num |-> outcome'[i].addImpulse], num))

RECURSIVE Loop(_, _)
\* the outcomes of the first k turns of the particle loop
Loop(k, s) == IF k = 0 THEN <<>> ELSE Append(Loop(k - 1, s), Advance(k, s))

\* s = speed * elapsed / 1000, in 1/PosScale
StepLength(elapsed) == RDiv(speed * elapsed * PosScale, 1000)

\* s in 1/TimeScale
StepTime(elapsed) == speed * elapsed * (TimeScale \div 1000)

\* Model::step(elapsed)
step(elapsed) ==
  /\ outcome' = Loop(num, StepLength(elapsed))
  /\ positions' = [i \in 1..num |-> outcome'[i].newP]
  /\ speedDir' = [i \in 1..num |-> outcome'[i].phi]
  /\ num' = num
  /\ Account(StepTime(elapsed))
  /\ Sample

(* ---------------------------- a second instance ------------------------ *)
\* A second Model with the configuration and the particles of this one,
\* constructed fresh (Model::Model calls clear(), setBinsNumber sizes the
\* vectors) at the moment this one is cleared, and driven by the same step
\* calls from then on. before is timeFull of this instance at its clear().
Fresh(n, tf) ==
  [timeFull |-> 0, timeInside |-> 0, impulseSum |-> 0,
   timeInsideAll |-> Zeros(n), density |-> ZeroQuots(n),
   time |-> <<>>, prob |-> <<>>, impulses |-> <<>>, before |-> tf]

\* the particle loop and timeFull += s of Model::step on the statistics st
OtherAccount(st, sT) ==
  IF paintTraceOnly THEN st
  ELSE [st EXCEPT
         !.timeFull = @ + sT,
         !.timeInside = @ + Inside(bin) * Share(sT),
         !.timeInsideAll = [b \in 1..nbins |-> @[b] + Inside(b - 1) * Share(sT)],
         !.impulseSum =
            @ + SumOver([i \in 1..num |-> outcome'[i].addImpulse], num)]

\* the condition of the append on the statistics st
OtherDue(st) ==
  /\ \/ st.time = <<>>
     \/ st.time[Len(st.time)][1]
          + measurePeriod * TimeScale * st.time[Len(st.time)][2]
          <= st.timeFull * st.time[Len(st.time)][2]
  /\ Len(st.time) < MAX_HISTORY

\* the tail of Model::step on the statistics st
OtherSample(st) ==
  IF OtherDue(st)
    THEN [st EXCEPT
           !.time = Append(@, Quot(st.timeFull, 100)),
           !.prob = Append(@, Quot(st.timeInside, st.timeFull)),
           !.impulses = Append(@, st.impulseSum),
           !.density = Renormalized(st.timeInsideAll, st.timeFull)]
    ELSE st

\* Model::step of the second instance, when there is one
OtherStep(sT) ==
  other' = IF other = <<>> THEN other ELSE OtherSample(OtherAccount(other, sT))

(* --------------------------------- inputs ------------------------------ *)
\* Widget::mouseReleaseEvent: press position and direction of an added particle
AddArgs == {<<10, 25, 0>>, <<10, 25, 180>>, <<130, 50, 0>>}
\* rand() % width, rand() % height, rand() % 360 as drawn by setNumber
RandArgs == {<<30, 30, 90>>, <<200, 200, 45>>}
\* numberBox values
NumberBoxValues == {0, 1, 2}
\* speedBox values
Speeds == {100, 300}
\* binsBox values
BinsNumbers == {1, 3}

\* (rand() % width, rand() % height) as the trial loop can draw them: two
\* places inside an atom, one free
RandPlaces == {<<30, 30>>, <<25, 75>>, <<200, 200>>}
\* rand() % 360
RandAngles == {90}
\* press positions and directions that meet the atom at (25, 25) in the
\* ways checkAtom distinguishes: from outside, off its axis, from inside,
\* and next to the left wall
ProbeArgs ==
  {<<8, 30>>, <<10, 25>>, <<11, 25>>, <<30, 30>>, <<40, 40>>}
    \X {0, 45, 90, 180, 225}
\* speedBox values (0.1..1000)
ProbeSpeeds == {100, 280, 300}
\* speedBox values (0.1..1000) with a step length above measurePeriod
FastSpeeds == {500, 1000}
\* box extents handed to Model::setDim
Dims == {400, 401, 410, 90}
\* sideBox values (5..400)
Sides == {7, 25, 40, 50}

(* ------------------------------ construction --------------------------- *)
\* variant: a zero offset is kept
OffsetKeepsZero(extent, sd) == (extent % sd) \div 2

\* Model::setDim: the offset derived from w, h and the spacing sd
Offset(extent, sd) == LET o == (extent % sd) \div 2 IN IF o /= 0 THEN o ELSE sd

\* The state after Window::Window: Model::Model (side 25), Widget::Widget
\* (setDim), then the setters called with the values of the form.
Init ==
  /\ width = WidgetW /\ height = WidgetH
  /\ xBegin = Offset(WidgetW, ModelSide) /\ yBegin = Offset(WidgetH, ModelSide)
  /\ side = SideBoxValue
  /\ atomR = AtomRadBoxValue * PosScale
  /\ electronR = ElectronRadBoxValue * PosScale
  /\ speed = SpeedBoxValue
  /\ num = 0 /\ positions = <<>> /\ speedDir = <<>>
  /\ positions_save = <<>> /\ speedDir_save = <<>>
  /\ paintTraceOnly = FALSE
  /\ nbins = BinsBoxValue /\ bin = 0
  /\ binwidth = <<WidgetW, BinsBoxValue>>
  /\ timeFull = 0 /\ timeInside = 0 /\ impulseSum = 0
  /\ timeInsideAll = Zeros(BinsBoxValue)
  /\ density = ZeroQuots(BinsBoxValue)
  /\ time = <<>> /\ prob = <<>> /\ impulses = <<>>
  /\ outcome = <<>> /\ at_save = << <<>>, <<>> >> /\ other = <<>>
  /\ bin_before = -1 /\ drawn = <<>>
  /\ timerActive = FALSE /\ wasRunning = FALSE /\ trailChecked = FALSE
  /\ playEnabled = TRUE /\ entered_active = FALSE /\ confined = TRUE
  /\ trace_i = 0 /\ ticks = 0 /\ ops = 0

(* -------------------------------- operations --------------------------- *)
\* no paintEvent is inside its preview bracket
Idle == ~paintTraceOnly

Op == /\ Idle /\ ops < MaxOps /\ ops' = ops + 1
      /\ UNCHANGED <<ticks, trace_i, outcome, at_save>>

\* a call other than step ends the replay on the second instance
NoReplay == other' = <<>>

\* clear() here, a fresh second instance there
Replay == other' = Fresh(nbins, timeFull)

\* the step being made has one particle, whose x before and after lies in
\* the monitored bin
Confined ==
  num = 1 /\ Resides(positions[1], positions'[1], bin, binwidth)

\* Widget::animate: model->step(refresh_rate)
Animate ==
  /\ Idle /\ ticks < MaxTicks
  /\ step(refresh_rate)
  /\ OtherStep(StepTime(refresh_rate))
  /\ ticks' = ticks + 1
  /\ UNCHANGED <<geometry, speed, saved, paintTraceOnly, bins, at_save,
                 trace_i, ops>>
  /\ UNCHANGED <<bin_before, drawn>>
  /\ confined' = (confined /\ Confined)
  /\ UNCHANGED <<window, entered_active>>

\* Model::add
add(x, y, angle) ==
  /\ positions' = Append(positions, <<x * PosScale, y * PosScale>>)
  /\ speedDir' = Append(speedDir, angle)
  /\ num' = num + 1

Add ==
  /\ Op /\ NoReplay /\ num < MaxNum
  /\ \E a \in AddArgs : add(a[1], a[2], a[3])
  /\ UNCHANGED <<geometry, speed, saved, paintTraceOnly, bins, accumulators,
                 density, series>>
  /\ UNCHANGED <<bin_before, drawn>>
  /\ UNCHANGED <<window, entered_active, confined>>

\* the test of setNumber's trial loop: farther than atomR + electronR from
\* all four candidates
Free(x, y) ==
  LET cs == Candidates(x, y, xBegin * PosScale, yBegin * PosScale, side * PosScale)
  IN \A k \in 1..4 : ~Within(x, y, cs[k], atomR + electronR)

\* the draws the trial loop of setNumber can end with: a free candidate
\* breaks the loop at any trial, a blocked one is kept only when it is the
\* last, after every earlier trial was blocked as well
Placed(a) == \/ Free(a[1] * PosScale, a[2] * PosScale)
             \/ \E b \in RandArgs : ~Free(b[1] * PosScale, b[2] * PosScale)

\* variant: shrinking drops the oldest particles
setNumberDropsOldest(newNum) ==
  IF newNum <= num
    THEN /\ positions' = SubSeq(positions, num - newNum + 1, num)
         /\ speedDir' = SubSeq(speedDir, num - newNum + 1, num)
         /\ num' = newNum
    ELSE \E new \in [1..(newNum - num) -> {a \in RandArgs : Placed(a)}] :
           /\ positions' = positions \o
                [k \in 1..(newNum - num) |->
                   <<new[k][1] * PosScale, new[k][2] * PosScale>>]
           /\ speedDir' = speedDir \o [k \in 1..(newNum - num) |-> new[k][3]]
           /\ num' = newNum

\* Model::setNumber
setNumber(newNum) ==
  IF newNum <= num
    THEN /\ positions' = SubSeq(positions, 1, newNum)
         /\ speedDir' = SubSeq(speedDir, 1, newNum)
         /\ num' = newNum
    ELSE \E new \in [1..(newNum - num) -> {a \in RandArgs : Placed(a)}] :
           /\ positions' = positions \o
                [k \in 1..(newNum - num) |->
                   <<new[k][1] * PosScale, new[k][2] * PosScale>>]
           /\ speedDir' = speedDir \o [k \in 1..(newNum - num) |-> new[k][3]]
           /\ num' = newNum

SetNumber ==
  /\ Op /\ NoReplay
  /\ \E n \in NumberBoxValues : n <= MaxNum /\ setNumber(n)
  /\ UNCHANGED <<geometry, speed, saved, paintTraceOnly, bins, accumulators,
                 density, series>>
  /\ UNCHANGED <<bin_before, drawn>>
  /\ UNCHANGED <<window, entered_active, confined>>

\* variant: timeInside survives
clearKeepsTimeInside ==
  /\ time' = <<>> /\ prob' = <<>> /\ impulses' = <<>>
  /\ density' = ZeroQuots(nbins)
  /\ timeInsideAll' = Zeros(nbins)
  /\ timeFull' = 0 /\ timeInside' = timeInside /\ impulseSum' = 0

\* variant: impulseSum survives
clearKeepsImpulse ==
  /\ time' = <<>> /\ prob' = <<>> /\ impulses' = <<>>
  /\ density' = ZeroQuots(nbins)
  /\ timeInsideAll' = Zeros(nbins)
  /\ timeFull' = 0 /\ timeInside' = 0 /\ impulseSum' = impulseSum

\* Model::clear
clear ==
  /\ time' = <<>> /\ prob' = <<>> /\ impulses' = <<>>
  /\ density' = ZeroQuots(nbins)
  /\ timeInsideAll' = Zeros(nbins)
  /\ timeFull' = 0 /\ timeInside' = 0 /\ impulseSum' = 0

\* variant: the particles are dropped as well
ClearDropsParticles ==
  /\ Op /\ clear /\ Replay
  /\ num' = 0 /\ positions' = <<>> /\ speedDir' = <<>>
  /\ UNCHANGED <<geometry, speed, saved, paintTraceOnly, bins>>
  /\ UNCHANGED <<bin_before, drawn>>
  /\ confined' = TRUE
  /\ UNCHANGED <<window, entered_active>>

\* Widget::clear: model->clear()
Clear ==
  /\ Op /\ clear /\ Replay
  /\ UNCHANGED <<geometry, speed, particles, saved, paintTraceOnly, bins>>
  /\ UNCHANGED <<bin_before, drawn>>
  /\ confined' = TRUE
  /\ UNCHANGED <<window, entered_active>>

\* Window::clearSettings: numberBox->setValue(0) reaches Model::setNumber(0),
\* then model.clear()
ClearSettings ==
  /\ Op /\ setNumber(0) /\ clear /\ Replay
  /\ UNCHANGED <<geometry, speed, saved, paintTraceOnly, bins>>
  /\ UNCHANGED <<bin_before, drawn>>
  /\ confined' = TRUE
  /\ trailChecked' = FALSE /\ playEnabled' = TRUE /\ timerActive' = FALSE
  /\ UNCHANGED <<wasRunning, entered_active>>

\* Widget::setSpeed: model->setSpeed(val)
SetSpeed ==
  /\ Op /\ NoReplay
  /\ \E v \in Speeds : speed' = v
  /\ UNCHANGED <<geometry, particles, saved, paintTraceOnly, bins, accumulators,
                 density, series>>
  /\ UNCHANGED <<bin_before, drawn>>
  /\ UNCHANGED <<window, entered_active, confined>>

\* variant: the spin box keeps a value above its maximum
Unclamped(idx, n) == idx

\* binIndexBox->setMaximum(n): a value above n drops to n, and the change
\* reaches Widget::setBinIndex, which hands value - 1 to Model::setBinIndex
Clamped(idx, n) == IF idx + 1 > n THEN n - 1 ELSE idx

\* Model::setBinsNumber
setBinsNumber(n) ==
  /\ nbins' = n
  /\ binwidth' = <<width, n>>
  /\ density' = ZeroQuots(n)
  /\ timeInsideAll' = Zeros(n)

\* Window::updateBinsNumber
SetBinsNumber ==
  /\ Op /\ NoReplay
  /\ \E n \in BinsNumbers : bin' = Clamped(bin, n) /\ setBinsNumber(n)
  /\ bin_before' = bin /\ UNCHANGED drawn
  /\ UNCHANGED <<geometry, speed, particles, saved, paintTraceOnly,
                 timeFull, timeInside, impulseSum, series>>
  /\ UNCHANGED <<window, entered_active, confined>>

\* Widget::setBinIndex(val) with val in the range 1..nbins of binIndexBox:
\* model->setBinIndex(val - 1)
SetBinIndex ==
  /\ Op /\ NoReplay
  /\ \E val \in 1..nbins : bin' = val - 1
  /\ UNCHANGED <<geometry, speed, particles, saved, paintTraceOnly, nbins,
                 binwidth, accumulators, density, series>>
  /\ UNCHANGED <<bin_before, drawn>>
  /\ UNCHANGED <<window, entered_active, confined>>

(* ----------------------------- trace preview --------------------------- *)
TraceSteps == trace_length \div refresh_rate

\* Model::save
save == /\ positions_save' = positions
        /\ speedDir_save' = speedDir

\* variant: only the positions are restored
loadPositionsOnly == /\ positions' = positions_save
                     /\ speedDir' = speedDir

\* Model::load
load == /\ positions' = positions_save
        /\ speedDir' = speedDir_save

\* Widget::paintEvent with showTrace, up to the loop: model->save(),
\* setPaintTraceOnly(true)
paintEventBegin ==
  /\ NoReplay
  /\ save
  /\ at_save' = <<positions, speedDir>>
  /\ paintTraceOnly' = TRUE
  /\ trace_i' = 0
  /\ UNCHANGED <<geometry, speed, particles, bins, accumulators, density,
                 series, outcome, ticks>>
  /\ UNCHANGED <<bin_before, drawn, confined>>

\* a paint event in trail mode
PaintTraceBegin ==
  /\ Idle /\ ops < MaxOps /\ ops' = ops + 1
  /\ paintEventBegin
  /\ UNCHANGED <<window, entered_active>>

\* one turn of the loop: model->step(step)
PaintTraceStep ==
  /\ paintTraceOnly /\ trace_i < TraceSteps
  /\ step(refresh_rate)
  /\ trace_i' = trace_i + 1
  /\ UNCHANGED <<geometry, speed, saved, paintTraceOnly, bins, at_save, other,
                 ticks, ops>>
  /\ UNCHANGED <<bin_before, drawn>>
  /\ UNCHANGED <<window, entered_active, confined>>

\* after the loop: setPaintTraceOnly(false), model->load()
PaintTraceEnd ==
  /\ paintTraceOnly /\ trace_i = TraceSteps
  /\ paintTraceOnly' = FALSE
  /\ load
  /\ trace_i' = 0
  /\ UNCHANGED <<geometry, speed, num, saved, bins, accumulators, density,
                 series, outcome, at_save, other, ticks, ops>>
  /\ UNCHANGED <<bin_before, drawn>>
  /\ UNCHANGED <<window, entered_active, confined>>

Next == \/ Animate \/ Add \/ SetNumber \/ Clear \/ ClearSettings \/ SetSpeed
        \/ SetBinsNumber \/ SetBinIndex
        \/ PaintTraceBegin \/ PaintTraceStep \/ PaintTraceEnd

Spec == Init /\ [][Next]_vars

(* ------------------------------ window events ------------------------- *)
\* variant: if (timer->isActive()) wasRunning = true; without the else
trailModeSticky(active) ==
  IF active
    THEN /\ wasRunning' = (timerActive \/ wasRunning)
         /\ timerActive' = FALSE
         /\ playEnabled' = FALSE
         /\ trailChecked' = TRUE
    ELSE /\ trailChecked' = FALSE
         /\ timerActive' = (wasRunning \/ timerActive)
         /\ playEnabled' = TRUE
         /\ UNCHANGED wasRunning

\* variant: entering trail mode leaves the timer as it is
trailModeKeepsTimer(active) ==
  IF active
    THEN /\ wasRunning' = timerActive
         /\ timerActive' = timerActive
         /\ playEnabled' = FALSE
         /\ trailChecked' = TRUE
    ELSE /\ trailChecked' = FALSE
         /\ timerActive' = (wasRunning \/ timerActive)
         /\ playEnabled' = TRUE
         /\ UNCHANGED wasRunning

\* Window::trailMode(active), reached by trailModeCheckBox's toggled(bool)
trailMode(active) ==
  IF active
    THEN /\ wasRunning' = timerActive
         /\ timerActive' = FALSE
         /\ playEnabled' = FALSE
         /\ trailChecked' = TRUE
    ELSE /\ trailChecked' = FALSE
         /\ timerActive' = (wasRunning \/ timerActive)
         /\ playEnabled' = TRUE
         /\ UNCHANGED wasRunning

\* the check box is checked: trailMode(true), whose setTrace(true) repaints
\* and so enters the preview
TrailModeOn ==
  /\ Idle /\ ~trailChecked
  /\ trailMode(TRUE)
  /\ entered_active' = timerActive
  /\ paintEventBegin
  /\ UNCHANGED ops

\* the check box is unchecked: trailMode(false); the repaint of
\* setTrace(false) runs no preview
TrailModeOff ==
  /\ Idle /\ trailChecked
  /\ trailMode(FALSE)
  /\ UNCHANGED <<geometry, speed, particles, saved, paintTraceOnly, bins,
                 accumulators, density, series, outcome, at_save, other,
                 bin_before, drawn, entered_active, confined, trace_i, ticks,
                 ops>>

\* Window::togglePlay, reached by the clicked() of the enabled button
TogglePlay ==
  /\ Idle /\ playEnabled
  /\ timerActive' = ~timerActive
  /\ UNCHANGED <<geometry, speed, particles, saved, paintTraceOnly, bins,
                 accumulators, density, series, outcome, at_save, other,
                 bin_before, drawn, wasRunning, trailChecked, playEnabled,
                 entered_active, confined, trace_i, ticks, ops>>

\* timeout() of the active timer: Widget::animate
Timeout == timerActive /\ Animate

\* the first press on the widget, outside trail mode: the repaint runs no
\* preview (one particle is what the previews and the ticks of these runs
\* move)
Press == ~trailChecked /\ num = 0 /\ Add

\* a repaint in trail mode: the paint event runs the preview
Paint == trailChecked /\ PaintTraceBegin

\* the events of the window: the buttons, the check box, the timer, the
\* widget
WindowNext ==
  \/ TogglePlay \/ TrailModeOn \/ TrailModeOff \/ ClearSettings \/ Timeout
  \/ Press \/ Paint \/ PaintTraceStep \/ PaintTraceEnd

WindowSpec == Init /\ [][WindowNext]_vars

(* ------------------------------- placement ---------------------------- *)
\* variant: the loop runs for (trial = 1; trial <= 10; trial++)
TrialsInclusive == NumTrials + 1

\* the number of turns of for (int trial = 1; trial < 10; trial++)
Trials == NumTrials

RECURSIVE TrialLoop(_, _)
\* the (x, y) the trial loop of setNumber ends with when rand() yields the
\* places d[trial], d[trial + 1], ...: a free place breaks the loop
TrialLoop(d, trial) ==
  IF trial >= Trials \/ Free(d[trial][1] * PosScale, d[trial][2] * PosScale)
    THEN d[trial]
    ELSE TrialLoop(d, trial + 1)

\* Model::setNumber(num + 1) on an empty model, with the draws of its trial
\* loop traced
SetNumberDrawn ==
  /\ Op /\ NoReplay /\ num = 0
  /\ \E d \in [1..(NumTrials + 1) -> RandPlaces], angle \in RandAngles :
       /\ drawn' = d
       /\ add(TrialLoop(d, 1)[1], TrialLoop(d, 1)[2], angle)
  /\ UNCHANGED <<geometry, speed, saved, paintTraceOnly, bins, accumulators,
                 density, series, bin_before>>
  /\ UNCHANGED <<window, entered_active, confined>>

PlacementNext == SetNumberDrawn

PlacementSpec == Init /\ [][PlacementNext]_vars

(* ------------------------------ collider runs -------------------------- *)
\* Widget::mouseReleaseEvent on an empty model
ProbeAdd ==
  /\ Op /\ NoReplay /\ num = 0
  /\ \E a \in ProbeArgs : add(a[1][1], a[1][2], a[2])
  /\ UNCHANGED <<geometry, speed, saved, paintTraceOnly, bins, accumulators,
                 density, series, bin_before, drawn>>
  /\ UNCHANGED <<window, entered_active, confined>>

\* Widget::setSpeed: model->setSpeed(val)
ProbeSpeed ==
  /\ Op /\ NoReplay
  /\ \E v \in ProbeSpeeds : speed' = v
  /\ UNCHANGED <<geometry, particles, saved, paintTraceOnly, bins,
                 accumulators, density, series, bin_before, drawn>>
  /\ UNCHANGED <<window, entered_active, confined>>

\* one particle, a speed, and the ticks of the timer
ColliderNext == ProbeAdd \/ ProbeSpeed \/ Animate

ColliderSpec == Init /\ [][ColliderNext]_vars

(* ------------------------------- series runs --------------------------- *)
\* Widget::setSpeed: model->setSpeed(val)
FastSpeed ==
  /\ Op /\ NoReplay
  /\ \E v \in FastSpeeds : speed' = v
  /\ UNCHANGED <<geometry, particles, saved, paintTraceOnly, bins,
                 accumulators, density, series, bin_before, drawn, window,
                 entered_active, confined>>

\* a speed, the ticks of the timer and the previews of trail mode
SeriesNext ==
  \/ FastSpeed \/ Animate \/ PaintTraceBegin \/ PaintTraceStep
  \/ PaintTraceEnd

SeriesSpec == Init /\ [][SeriesNext]_vars

(* ------------------------------ lattice calls -------------------------- *)
\* Model::setDim
setDim(w, h) ==
  /\ width' = w /\ height' = h
  /\ xBegin' = Offset(w, side) /\ yBegin' = Offset(h, side)

\* Model::setSide
setSide(val) == side' = val

SetDim ==
  /\ Op /\ NoReplay
  /\ \E w \in Dims, h \in Dims : setDim(w, h)
  /\ UNCHANGED <<side, atomR, electronR, speed, particles, saved,
                 paintTraceOnly, bins, accumulators, density, series,
                 bin_before, drawn>>
  /\ UNCHANGED <<window, entered_active, confined>>

\* Widget::setSide: model->setSide(val)
SetSide ==
  /\ Op /\ NoReplay
  /\ \E val \in Sides : setSide(val)
  /\ UNCHANGED <<width, height, xBegin, yBegin, atomR, electronR, speed,
                 particles, saved, paintTraceOnly, bins, accumulators, density,
                 series, bin_before, drawn>>
  /\ UNCHANGED <<window, entered_active, confined>>

\* the calls that shape the lattice, on the model the window constructed
LatticeNext == SetDim \/ SetSide

LatticeSpec == Init /\ [][LatticeNext]_vars

(* -------------------------------- properties --------------------------- *)
\* a particle lies in [0, width] x [0, height]
InBox(p) == /\ ~IsNaN(p)
            /\ 0 <= p[1] /\ p[1] <= width * PosScale
            /\ 0 <= p[2] /\ p[2] <= height * PosScale

\* C1: after any sequence of add, setNumber and step calls, in normal mode
\* or in trace-preview mode, every particle satisfies 0 <= x <= width and
\* 0 <= y <= height, also after checkAtom re-applied the reflected rest of
\* the step.  The code violates this: the point checkAtom leaves is not
\* tested against the walls.
C1_AllInBox == \A i \in 1..num : InBox(positions[i])

\* C2: a step in trace-preview mode appends nothing to the time, prob and
\* impulses series and leaves density unchanged, whatever the series and
\* timeFull are when the preview starts.  The code violates this: the
\* sample is appended whenever it is due, paintTraceOnly or not.
C2_TraceAppendsNothing ==
  [][PaintTraceStep => UNCHANGED <<series, density>>]_vars

\* entries a, b of time hold timeFull / 100.0 as numerator over denominator:
\* timeFull at b minus timeFull at a, times both denominators
Gap(a, b) == 100 * (b[1] * a[2] - a[1] * b[2])

\* C3: for any two consecutively appended samples, timeFull at the second
\* append is at least measurePeriod greater than timeFull at the first.
\* The code violates this: time.back() holds timeFull / 100.0 and is
\* compared with timeFull itself.
C3_SamplesApart ==
  \A k \in 1..(Len(time) - 1) :
    Gap(time[k], time[k + 1])
      >= measurePeriod * TimeScale * time[k][2] * time[k + 1][2]

\* C4: save, any number of steps in trace-preview mode, load is a round
\* trip: every position and direction equals its value at the save.
C4_RoundTrip ==
  [][PaintTraceEnd => (positions' = at_save[1] /\ speedDir' = at_save[2])]_vars

\* a preview has ended, its last step left particle 1 elsewhere and with
\* another direction than the restored ones
C4_Witness ==
  /\ ~paintTraceOnly /\ num > 0 /\ Len(outcome) = num
  /\ positions = at_save[1] /\ speedDir = at_save[2]
  /\ outcome[1].newP /= positions[1]
  /\ outcome[1].phi /= speedDir[1]

\* C5: a step in trace-preview mode leaves timeFull, timeInside,
\* timeInsideAll and impulseSum unchanged, also when the step hits a wall
\* or stays inside the monitored bin.
C5_TraceKeepsAccumulators ==
  [][PaintTraceStep => UNCHANGED accumulators]_vars

\* a previewed step hit a wall while its particle stayed in the monitored bin
C5_Witness ==
  /\ paintTraceOnly /\ trace_i >= 1
  /\ \E i \in 1..num :
       /\ outcome[i].addImpulse > 0
       /\ Resides(outcome[i].curP, outcome[i].newP, bin, binwidth)

\* C6: the time series never holds more than MAX_HISTORY samples, and once
\* it holds MAX_HISTORY samples every further step leaves the time, prob and
\* impulses series as they are.
C6_Capped ==
  /\ [](Len(time) <= MAX_HISTORY)
  /\ [][(Len(time) = MAX_HISTORY /\ (Animate \/ PaintTraceStep))
         => UNCHANGED series]_vars

\* the series is full and a later step has moved timeFull past the last
\* sample far enough for one more to be due
C6_Witness ==
  /\ Len(time) = MAX_HISTORY /\ Len(prob) = MAX_HISTORY
  /\ PeriodOver(timeFull)
  /\ time[Len(time)] /= Quot(timeFull, 100)

\* C7: every recorded probability computed with timeFull > 0 lies in
\* [0, 1], for any number of particles and any interleaving of step with
\* add, setNumber, setSpeed, setBinIndex and setBinsNumber: timeInside <=
\* timeFull always.
C7_ProbInUnitInterval ==
  /\ 0 <= timeInside /\ timeInside <= timeFull
  /\ \A k \in 1..Len(prob) :
       prob[k][2] /= 0 => (0 <= prob[k][1] /\ prob[k][1] <= prob[k][2])

\* a sample strictly between 0 and 1 was recorded with several particles
C7_Witness ==
  /\ num > 1
  /\ \E k \in 1..Len(prob) :
       prob[k][2] /= 0 /\ 0 < prob[k][1] /\ prob[k][1] < prob[k][2]

RECURSIVE DenProd(_, _)
\* the product of the denominators of d[1..n]
DenProd(d, n) == IF n = 0 THEN 1 ELSE d[n][2] * DenProd(d, n - 1)

RECURSIVE NumSum(_, _)
\* the numerator of d[1] + ... + d[n] over DenProd(d, n)
NumSum(d, n) ==
  IF n = 0 THEN 0
  ELSE NumSum(d, n - 1) * d[n][2] + d[n][1] * DenProd(d, n - 1)

\* the entries of d are numbers and add up to 1
SumsToOne(d) ==
  /\ \A b \in 1..Len(d) : d[b][2] /= 0
  /\ NumSum(d, Len(d)) = DenProd(d, Len(d))

\* C8: whenever a sample is recorded and some timeInsideAll[b] is nonzero,
\* density after the renormalization sums to 1 over the nbins bins.
C8_DensitySumsToOne ==
  [][(Len(time') > Len(time) /\ \E b \in 1..nbins' : timeInsideAll'[b] /= 0)
       => (Len(density') = nbins' /\ SumsToOne(density'))]_vars

\* a sample was recorded with residence spread over more than one bin
C8_Witness ==
  /\ Len(time) > 0
  /\ \E b \in 1..nbins : timeInsideAll[b] /= 0
  /\ \E b \in 1..nbins :
       density[b][2] /= 0 /\ 0 < density[b][1] /\ density[b][1] < density[b][2]

\* C9: clear() sets timeFull, timeInside, impulseSum and every
\* timeInsideAll[b] to zero and empties the time, prob and impulses series,
\* from any reachable state.
C9_ClearResets ==
  [][Clear => /\ timeFull' = 0 /\ timeInside' = 0 /\ impulseSum' = 0
              /\ \A b \in 1..Len(timeInsideAll') : timeInsideAll'[b] = 0
              /\ Len(timeInsideAll') = nbins
              /\ time' = <<>> /\ prob' = <<>> /\ impulses' = <<>>]_vars

\* steps have run and a clear() has since wiped what they accumulated
C9_Witness ==
  /\ ticks > 0 /\ ~paintTraceOnly
  /\ timeFull = 0 /\ timeInside = 0 /\ impulseSum = 0
  /\ time = <<>> /\ prob = <<>> /\ impulses = <<>>

\* C10: clear() leaves num and every particle's position and direction
\* unchanged.
C10_ClearKeepsParticles == [][Clear => UNCHANGED particles]_vars

\* after a clear() the particles are where the last step left them
C10_Witness ==
  /\ ticks > 0 /\ timeFull = 0 /\ ~paintTraceOnly
  /\ num > 0 /\ Len(outcome) = num
  /\ \A i \in 1..num : /\ positions[i] = outcome[i].newP
                        /\ positions[i] /= outcome[i].curP
                        /\ speedDir[i] = outcome[i].phi

\* C11: two instances with the same configuration and the same particles,
\* each cleared (this one after whatever it had accumulated, the other one
\* fresh) and then driven by the same step calls, hold the same time, prob,
\* impulses and density series.
C11_ReplayAgrees ==
  other /= <<>> =>
    /\ other.time = time /\ other.prob = prob
    /\ other.impulses = impulses /\ other.density = density

\* this instance had run before its clear(), and a step after the clear()
\* recorded a sample with a particle inside the monitored bin
C11_Witness ==
  /\ other /= <<>> /\ other.before > 0
  /\ num > 0 /\ Len(time) > 0 /\ timeInside > 0

\* C12: after any sequence of bin-count and bin-index changes made through
\* Window::updateBinsNumber and Widget::setBinIndex, 0 <= bin < nbins; a
\* bin count lowered below the monitored index brings the index back.
C12_BinInRange == 0 <= bin /\ bin < nbins

\* the bin count was lowered to or below the index monitored until then
C12_Witness == bin_before >= nbins /\ bin = nbins - 1

\* C13: after any sequence of setDim and setSide calls, (xBegin, yBegin) is
\* the offset derived from the current width, height and side.  The code
\* violates this: setSide stores the spacing and leaves the offset that
\* setDim computed from the previous spacing.
C13_OffsetCurrent ==
  xBegin = Offset(width, side) /\ yBegin = Offset(height, side)

\* the offset that follows from extent and spacing sd as C14 words it: sd
\* exactly when the remainder is 0, else a value derived from the remainder
AsWorded(o, extent, sd) ==
  /\ (o = sd) <=> (extent % sd = 0)
  /\ extent % sd /= 0 => o = (extent % sd) \div 2

\* C14 as worded: immediately after setDim(w, h), xBegin is side exactly
\* when w mod side is 0, and likewise yBegin for h.  A remainder of 1 refutes
\* it: its half is 0 in int arithmetic and is replaced by side.
C14_AsWorded ==
  [][SetDim => /\ AsWorded(xBegin', width', side')
               /\ AsWorded(yBegin', height', side')]_vars

\* half the remainder, or the spacing where that half is 0
HalfOrSide(o, extent, sd) ==
  /\ o > 0
  /\ (o = sd) <=> (extent % sd <= 1)
  /\ extent % sd > 1 => (2 * o = extent % sd \/ 2 * o + 1 = extent % sd)

\* C14, amended: immediately after setDim(w, h) with side > 0, xBegin is
\* side exactly when w mod side is 0 or 1, and half the remainder (rounded
\* down) otherwise; likewise yBegin for h.  The offset is never 0.
C14_HalfOrSide ==
  [][SetDim => /\ HalfOrSide(xBegin', width', side')
               /\ HalfOrSide(yBegin', height', side')]_vars

\* a single call since construction, a setDim, met a remainder of 1 in x
\* and a larger one in y
C14_Witness ==
  /\ ops = 1 /\ width /= WidgetW
  /\ width % side = 1 /\ xBegin = side
  /\ height % side > 1 /\ yBegin = (height % side) \div 2

\* the candidate end position curP + dP of particle i in a step by elapsed
CandidateEnd(i, elapsed) ==
  Moved(positions[i],
        RDiv(Cos(speedDir[i]) * StepLength(elapsed), TrigScale),
        RDiv(Sin(speedDir[i]) * StepLength(elapsed), TrigScale))

\* by how much the radius-inflated point c passes each wall: bottom, right,
\* top, left (positive: passed)
Overshoot(c) ==
  << c[2] + electronR - height * PosScale, c[1] + electronR - width * PosScale,
     electronR - c[2], electronR - c[1] >>

\* wall k is the only one c passes
OnlyWall(c, k) ==
  \A j \in 1..4 : (Overshoot(c)[j] > 0) <=> (j = k)

\* the boundary of wall k mirrored back inside by d, the other coordinate
\* as in c
Mirrored(c, k, d) ==
  CASE k = 1 -> <<c[1], height * PosScale - electronR - d>>
    [] k = 2 -> <<width * PosScale - electronR - d, c[2]>>
    [] k = 3 -> <<c[1], electronR + d>>
    [] k = 4 -> <<electronR + d, c[2]>>

\* 2*pi - phi for a horizontal wall (bottom, top), 3*pi - phi for a
\* vertical one
Flipped(phi, k) == IF k \in {1, 3} THEN 360 - phi ELSE 540 - phi

\* C15: in a step in normal mode, a particle whose candidate end position
\* passes exactly one wall by d > 0 and touches no atom is stored at the
\* boundary mirrored back inside by d, its direction becomes 2*pi - phi
\* (horizontal wall) or 3*pi - phi (vertical wall), and it adds exactly d to
\* impulseSum.
C15_MirrorReflection ==
  [][Animate =>
      \A i \in 1..num : \A k \in 1..4 :
        ( /\ ~IsNaN(CandidateEnd(i, refresh_rate))
          /\ OnlyWall(CandidateEnd(i, refresh_rate), k)
          /\ ~outcome'[i].act )
        => /\ positions'[i] =
                Mirrored(CandidateEnd(i, refresh_rate), k,
                         Overshoot(CandidateEnd(i, refresh_rate))[k])
           /\ speedDir'[i] = Flipped(speedDir[i], k)
           /\ outcome'[i].addImpulse =
                Overshoot(CandidateEnd(i, refresh_rate))[k]
           /\ (num = 1 =>
                 impulseSum' = impulseSum
                                 + Overshoot(CandidateEnd(i, refresh_rate))[k])
  ]_vars

\* a step in normal mode has just mirrored a particle at one wall, away
\* from every atom, and impulseSum has grown by the overshoot
C15_Witness ==
  /\ ~paintTraceOnly /\ ticks > 0 /\ num = 1 /\ Len(outcome) = 1
  /\ outcome[1].addImpulse > 0 /\ ~outcome[1].act
  /\ positions[1] = outcome[1].wallP
  /\ impulseSum = outcome[1].addImpulse
  /\ timeFull > 0

\* place k of the draws is farther than atomR + electronR from its four
\* lattice candidates
FreeDraw(k) == Free(drawn[k][1] * PosScale, drawn[k][2] * PosScale)

\* the particle last added stands on draw k
StandsOn(k) ==
  positions[num] = <<drawn[k][1] * PosScale, drawn[k][2] * PosScale>>

\* the first free draw among the first n is accepted, the n-th if none is
FirstFreeOf(n) ==
  \A k \in 1..n :
    ( /\ \A j \in 1..(k - 1) : ~FreeDraw(j)
      /\ (FreeDraw(k) \/ k = n) )
    => StandsOn(k)

\* C16 as worded: up to 10 places are tried for a particle added by
\* setNumber, the first free one is accepted, the 10th if all 10 fail.  The
\* loop makes 9 turns: a 10th place is never drawn.
C16_TenTrials == drawn /= <<>> => FirstFreeOf(NumTrials + 1)

\* C16, amended: up to 9 places are tried for a particle added by
\* setNumber; the first one farther than atomR + electronR from all 4
\* lattice candidates is accepted, and if all 9 fail the 9th is accepted
\* with its overlap.
C16_NineTrials == drawn /= <<>> => FirstFreeOf(NumTrials)

\* all 9 places drawn were blocked and the 9th, which differs from the one
\* rand() would yield next, was accepted with its overlap
C16_Witness ==
  /\ drawn /= <<>> /\ num = 1
  /\ \A k \in 1..NumTrials : ~FreeDraw(k)
  /\ drawn[NumTrials] /= drawn[NumTrials + 1]
  /\ StandsOn(NumTrials)

\* C17: setNumber(n) with 0 <= n below the current count removes the most
\* recently added particles: the count becomes n and the first n positions
\* and directions are as they were.
C17_ShrinkKeepsFirst ==
  [][((SetNumber \/ ClearSettings) /\ num' < num) =>
       /\ Len(positions') = num' /\ Len(speedDir') = num'
       /\ \A i \in 1..num' : /\ positions'[i] = positions[i]
                              /\ speedDir'[i] = speedDir[i]]_vars

\* the last step moved more particles than there are now, and the first
\* one is still where that step left it
C17_Witness ==
  /\ ~paintTraceOnly /\ num >= 1 /\ Len(outcome) > num
  /\ Len(positions) = num
  /\ positions[1] = outcome[1].newP /\ speedDir[1] = outcome[1].phi
  /\ outcome[1].newP /= outcome[Len(outcome)].newP

\* the point q is a number and lies within half a pixel of the circle of
\* radius atomR + electronR around c
OnCircle(q, c) ==
  /\ ~IsNaN(q)
  /\ sqr(atomR + electronR - PosScale \div 2)
       <= sqr(q[1] - c[1]) + sqr(q[2] - c[2])
  /\ sqr(q[1] - c[1]) + sqr(q[2] - c[2])
       <= sqr(atomR + electronR + PosScale \div 2)

\* C18: whenever checkAtom resolves a contact, the crossing point
\* start + t*(end - start) lies at distance atomR + electronR from the
\* matched centre, for every start and every wall-corrected end within the
\* radius.  The code violates this when the end equals the start: t is 0/0.
C18_CrossingOnCircle ==
  \A i \in 1..Len(outcome) :
    outcome[i].act => OnCircle(outcome[i].cross, outcome[i].c)

\* what holds instead: a contact over a segment of nonzero length crosses on
\* the circle
C18_CrossingOnCircleMoving ==
  \A i \in 1..Len(outcome) :
    (outcome[i].act /\ outcome[i].A /= 0)
      => OnCircle(outcome[i].cross, outcome[i].c)

\* C19: whenever checkAtom resolves a contact, the parameter t of the
\* crossing point lies in [0, 1], also when the particle starts the tick
\* inside an atom's radius and when the step length is zero.  The code
\* violates this: from inside the radius the root it takes is negative, and
\* over a segment of zero length t is 0/0.
C19_ParameterInUnit ==
  \A i \in 1..Len(outcome) :
    outcome[i].act =>
      /\ outcome[i].A /= 0
      /\ 0 <= outcome[i].tn /\ outcome[i].tn <= outcome[i].A

\* what holds instead: a contact reached from outside the radius over a
\* segment of nonzero length has t in [0, 1]
C19_ParameterInUnitFromOutside ==
  \A i \in 1..Len(outcome) :
    ( /\ outcome[i].act /\ outcome[i].A /= 0
      /\ ~Within(outcome[i].curP[1], outcome[i].curP[2], outcome[i].c,
                 atomR + electronR) )
    => (0 <= outcome[i].tn /\ outcome[i].tn <= outcome[i].A)

\* the direction 2*beta - phi - M_PI with beta taken at the point q
ReflectedAt(q, c, phi) == 2 * Atan2(q[2] - c[2], q[1] - c[1]) - phi - 180

\* C20: the normal beta of the atom reflection phi' = 2*beta - phi - pi is
\* taken at the crossing point on the atom's boundary, not at the penetrated
\* end of the step (to the degree, with one degree of rounding allowed for
\* beta).  The code violates this: beta is atan2 at the end of the step.
C20_NormalAtCrossing ==
  \A i \in 1..Len(outcome) :
    (outcome[i].act /\ ~IsNaN(outcome[i].cross))
      => Abs(outcome[i].phi
               - ReflectedAt(outcome[i].cross, outcome[i].c,
                             outcome[i].wallPhi)) <= 2

\* a call of Model::step was made: by the timer or by the preview loop
Stepped == ticks' = ticks + 1 \/ trace_i' = trace_i + 1

\* (1-t)*l of the turn o of the particle loop
Rest(o) == RDiv((o.A - o.tn) * Sqrt(o.A), o.A)

\* the turn o made no atom reflection and kept the wall-corrected point, or
\* made one, with the normal of the matched atom, and kept the point the
\* re-applied rest of the step leads to
OnceReflected(o) ==
  IF ~o.act THEN o.newP = o.wallP /\ o.phi = o.wallPhi
  ELSE /\ o.phi = ReflectedAt(o.wallP, o.c, o.wallPhi)
       /\ IF o.A = 0 THEN IsNaN(o.newP)
          ELSE o.newP = <<o.cross[1] + RDiv(Rest(o) * Cos(o.phi), TrigScale),
                          o.cross[2] + RDiv(Rest(o) * Sin(o.phi), TrigScale)>>

\* the atom test of the turn o was made on the wall-corrected point
TestedAfterWall(o) ==
  o.act = (~IsNaN(o.wallP) /\ ~Free(o.wallP[1], o.wallP[2]))

\* C21: in one call of step each particle undergoes at most one atom
\* reflection, applied after the wall correction of the same step, and the
\* position the re-applied rest of the step leads to is stored as it is,
\* not tested against walls or atoms again.
C21_OneReflection ==
  [][Stepped =>
       \A i \in 1..num :
         /\ TestedAfterWall(outcome'[i])
         /\ OnceReflected(outcome'[i])
         /\ positions'[i] = outcome'[i].newP
         /\ speedDir'[i] = outcome'[i].phi]_vars

\* a second test would have changed what the turn o stored: the point
\* violates a wall or lies within the radius of an atom
Untested(o) ==
  /\ o.act /\ ~IsNaN(o.newP)
  /\ \/ checkBorders(o.newP, o.phi, width * PosScale, height * PosScale,
                     electronR).p /= o.newP
     \/ ~Free(o.newP[1], o.newP[2])

\* a step stored for particle 1 the point of an atom reflection that a wall
\* test would have moved
C21_Witness ==
  /\ num > 0 /\ Len(outcome) = num
  /\ positions[1] = outcome[1].newP
  /\ Untested(outcome[1])
  /\ checkBorders(outcome[1].newP, outcome[1].phi, width * PosScale,
                  height * PosScale, electronR).p /= outcome[1].newP

\* the particles whose x before and after the step both lie in
\* [b*binwidth, (b+1)*binwidth), binwidth being width / nbins
Stayers(b) ==
  {i \in 1..num :
     /\ ~IsNaN(positions[i]) /\ ~IsNaN(positions'[i])
     /\ \A x \in {positions[i][1], positions'[i][1]} :
          /\ x * nbins >= b * width * PosScale
          /\ x * nbins < (b + 1) * width * PosScale}

\* k*s/num for the k particles that stay in bin b; nothing without particles
Credit(b, sT) ==
  IF num = 0 THEN 0 ELSE (Cardinality(Stayers(b)) * sT) \div num

\* C22: in a normal-mode tick with step length s and num particles,
\* timeFull increases by exactly s once (whatever num is, also 0),
\* timeInside increases by exactly k*s/num with k the number of particles
\* whose x before and after the step both lie in the monitored bin, and
\* each timeInsideAll[b] follows the same rule with the range of b.
C22_TickAccounting ==
  [][Animate =>
       /\ timeFull' = timeFull + speed * refresh_rate * (TimeScale \div 1000)
       /\ timeInside'
            = timeInside
                + Credit(bin, speed * refresh_rate * (TimeScale \div 1000))
       /\ \A b \in 1..nbins :
            timeInsideAll'[b]
              = timeInsideAll[b]
                  + Credit(b - 1, speed * refresh_rate * (TimeScale \div 1000))
    ]_vars

\* the one tick made so far moved two particles, one of which stayed in the
\* monitored bin: timeInside is half of timeFull
C22_Witness ==
  /\ ticks = 1 /\ Len(outcome) = 2 /\ num = 2
  /\ timeFull > 0 /\ 2 * timeInside = timeFull

\* a tick was made without particles and timeFull advanced
C22_WitnessEmpty ==
  /\ ticks = 1 /\ Len(outcome) = 0 /\ timeFull > 0 /\ timeInside = 0

\* density with 1 at the monitored bin and 0 elsewhere
OneHot == [b \in 1..nbins' |-> IF b = bin' + 1 THEN <<1, 1>> ELSE <<0, 1>>]

\* the step being made appends a sample
Appends == Len(time') = Len(time) + 1

\* C23: with a single particle whose x stays inside the monitored bin at
\* every tick since the last clear(), every recorded sample has probability
\* exactly 1, and is recorded with density[bin] = 1 and density[b] = 0 for
\* every other bin.  The code violates this: a step of the trace preview
\* made before the first tick records a sample with timeFull = 0, whose
\* probability and density are 0/0.
C23_ConfinedIsCertain ==
  /\ []((confined /\ num = 1) => \A k \in 1..Len(prob) : prob[k] = <<1, 1>>)
  /\ [][(Appends /\ confined' /\ num' = 1) => density' = OneHot]_vars

\* what holds instead: the samples recorded by the steps of the timer, in
\* normal mode, have probability 1 and the density of one bin
C23_ConfinedIsCertainInNormalMode ==
  [][(Animate /\ Appends /\ confined' /\ num' = 1)
       => (prob'[Len(prob')] = <<1, 1>> /\ density' = OneHot)]_vars

\* the point q violates no wall and is farther than atomR + electronR from
\* the four lattice candidates around it
Unobstructed(q) ==
  /\ ~IsNaN(q)
  /\ \A j \in 1..4 : Overshoot(q)[j] <= 0
  /\ \A k \in 1..4 :
       LET c == Candidates(q[1], q[2], xBegin * PosScale, yBegin * PosScale,
                           side * PosScale)[k]
       IN sqr(q[1] - c[1]) + sqr(q[2] - c[2]) > sqr(atomR + electronR)

\* C24: a tick whose candidate end position start + s*(cos phi, sin phi)
\* violates no wall and is farther than atomR + electronR from all four
\* lattice candidates stores exactly that position and leaves the direction
\* and impulseSum unchanged.
C24_FreeFlight ==
  [][Stepped =>
       /\ \A i \in 1..num :
            Unobstructed(CandidateEnd(i, refresh_rate))
              => /\ positions'[i] = CandidateEnd(i, refresh_rate)
                 /\ speedDir'[i] = speedDir[i]
                 /\ outcome'[i].addImpulse = 0
       /\ (\A i \in 1..num : Unobstructed(CandidateEnd(i, refresh_rate)))
            => impulseSum' = impulseSum
    ]_vars

\* a tick moved particle 1 to its candidate end, which is unobstructed, with
\* a wall nearer than the diameter and an atom nearer than twice the contact
\* distance, and changed neither direction nor impulseSum
C24_Witness ==
  /\ ticks > 0 /\ ~paintTraceOnly /\ num > 0 /\ Len(outcome) = num
  /\ ~outcome[1].act /\ outcome[1].addImpulse = 0
  /\ outcome[1].newP /= outcome[1].curP
  /\ outcome[1].newP = outcome[1].wallP /\ outcome[1].phi = outcome[1].wallPhi
  /\ positions[1] = outcome[1].newP /\ speedDir[1] = outcome[1].phi
  /\ Unobstructed(outcome[1].newP)
  /\ \E j \in 1..4 : Overshoot(outcome[1].newP)[j] + electronR > 0
  /\ \E k \in 1..4 :
       LET c == Candidates(positions[1][1], positions[1][2], xBegin * PosScale,
                           yBegin * PosScale, side * PosScale)[k]
       IN sqr(positions[1][1] - c[1]) + sqr(positions[1][2] - c[2])
            <= sqr(2 * (atomR + electronR))

\* C25: in the window's event handling, while trail mode is active the
\* stepping timer is never active, and the preview between save() and load()
\* runs in trail mode only: no step of the timer falls between a save() and
\* its load(), whatever the order of togglePlay, trailMode, clearSettings
\* and paint events.
C25_NoTimerInTrailMode ==
  /\ trailChecked => ~timerActive
  /\ paintTraceOnly => trailChecked

\* trail mode was entered while the timer ran, after a tick, and its preview
\* is under way
C25_Witness ==
  /\ trailChecked /\ entered_active /\ ~timerActive
  /\ ticks > 0 /\ paintTraceOnly /\ trace_i > 0

\* C26: leaving trail mode through the check box restarts the timer if and
\* only if the timer was active when trail mode was last entered.
C26_RestartIffWasRunning ==
  [][TrailModeOff => ((~timerActive /\ timerActive') <=> entered_active)]_vars

\* trail mode was entered with the timer running and left through the check
\* box (clearSettings was not called), and the timer runs
C26_Witness ==
  /\ ~trailChecked /\ entered_active /\ timerActive /\ ops = 0
  /\ at_save[1] = positions

\* trail mode was entered with the timer stopped and left through the check
\* box, and the timer is stopped
C26_WitnessStopped ==
  /\ ~trailChecked /\ ~entered_active /\ ~timerActive /\ ops = 0
  /\ Len(time) > 0 /\ ticks = 0

\* C27: every sample appended to the series is computed with timeFull > 0,
\* so the recorded probability timeInside / timeFull is never the result of
\* a division by zero, also for the first sample after construction or
\* clear() when the first step runs in trace-preview mode.  The code
\* violates this: the preview's first step finds the series empty and
\* appends with timeFull = 0.
C27_SampleAfterTime ==
  [][Appends => (timeFull' > 0 /\ prob'[Len(prob')][2] /= 0)]_vars

\* what holds instead: a sample appended by a step of the timer has
\* timeFull > 0
C27_SampleAfterTimeInNormalMode ==
  [][(Animate /\ Appends) => (timeFull' > 0 /\ prob'[Len(prob')][2] /= 0)]_vars

\* the point q is farther than atomR + electronR from every lattice centre
\* (the four around it are the nearest)
Outside(q) == ~IsNaN(q) /\ Free(q[1], q[2])

\* C28: a particle that starts a tick outside every atom's effective radius
\* also ends the tick outside every atom's effective radius, after the
\* reflected rest of the step has been applied.  The code violates this:
\* the rest of the step re-applied along the new direction can end within
\* the radius.
C28_StaysOutside ==
  \A i \in 1..Len(outcome) :
    Outside(outcome[i].curP) => Outside(outcome[i].newP)

\* the candidate end of some particle passes a wall
WallContact ==
  \E i \in 1..num :
    /\ ~IsNaN(CandidateEnd(i, refresh_rate))
    /\ \E j \in 1..4 : Overshoot(CandidateEnd(i, refresh_rate))[j] > 0

\* C29: impulseSum never decreases across step calls: every wall contact
\* adds a strictly positive overshoot; atom reflections, add, setNumber and
\* the setters leave it unchanged; only clear() resets it to zero.
C29_ImpulseMonotone ==
  [][ IF ticks' /= ticks
        THEN /\ Animate
             /\ impulseSum' >= impulseSum
             /\ (impulseSum' > impulseSum) <=> WallContact
        ELSE IF Clear \/ ClearSettings THEN impulseSum' = 0
        ELSE impulseSum' = impulseSum
    ]_vars

\* impulseSum holds the overshoot of an earlier wall contact, and the last
\* tick reflected particle 1 at an atom, with no wall contact, and left
\* impulseSum as it was
C29_Witness ==
  /\ ticks >= 2 /\ ~paintTraceOnly /\ num = 1 /\ Len(outcome) = 1
  /\ impulseSum > 0 /\ Len(impulses) > 0
  /\ outcome[1].act /\ outcome[1].addImpulse = 0

\* C30: the recorded time series is strictly increasing: every appended
\* sample's time is greater than the time of the sample before it, for every
\* sequence of normal-mode and trace-preview steps between two clear()
\* calls.  The code violates this: the steps of a preview, which do not
\* advance timeFull, append the same time again.
C30_TimeIncreasing ==
  \A k \in 1..(Len(time) - 1) : Gap(time[k], time[k + 1]) > 0

\* what holds instead: the series never decreases
C30_TimeNonDecreasing ==
  \A k \in 1..(Len(time) - 1) : Gap(time[k], time[k + 1]) >= 0

====
